---- MODULE Spec2Model ----
(***************************************************************************)
(* Laser-vehicle reinforcement-learning environment.                       *)
(*                                                                         *)
(*   SpecCurriculum  CurriculumManager (curriculum_learning.py): the stage *)
(*                   and the win history under record_outcome / reset.     *)
(*   SpecEnv         AdvancedLaserVehicleEnv (advanced_train.py): the      *)
(*                   episode state under reset / step.                     *)
(*   SpecDifficulty  the same environment under set_difficulty.            *)
(*   SpecVehicle     LaserVehicle (laser_vehicle.py): apply_action,        *)
(*                   get_laser_distances, set_difficulty.                  *)
(*   SpecArena       CombatArena (combat_arena.py): reset, spawn_vehicle,  *)
(*                   register_collision_callback, check_mine_collisions,   *)
(*                   step_simulation.                                      *)
(*   SpecMineField   CurriculumManager._generate_random_mine_positions.    *)
(*   SpecProcess     several environments on the physics engine of one     *)
(*                   process.                                              *)
(*                                                                         *)
(* Lengths are in millimetres, rewards in 1/1000 reward units, win rates   *)
(* in percent, the wall clock in whole seconds, velocities in mm/s and      *)
(* mrad/s, the difficulty in tenths.                                       *)
(***************************************************************************)
EXTENDS Integers, Sequences, FiniteSets, TLC

VARIABLES
    \* ---- CurriculumManager ----
    current_stage,      \* self.current_stage
    win_history,        \* self.win_history, oldest first
    cm_arena_mines,     \* len(self.arena.mines) of the manager's arena
    cm_arena_mine_objects, \* len(self.arena.mine_objects) of the manager's arena
    cm_last,            \* the last call made on the manager and the stage it found
    streak              \* observer: the run of equal outcomes recorded since the history was empty

cmVars == <<current_stage, win_history, cm_arena_mines, cm_arena_mine_objects, cm_last, streak>>

VARIABLES
    \* ---- AdvancedLaserVehicleEnv ----
    vehicle,                \* TRUE iff self.arena.vehicle is not None
    pose,                   \* what the physics engine reports for the primary vehicle
    opponent_position,      \* self.opponent_position, None before the first placement
    steps,                  \* self.steps
    boundary_crossed,       \* self.boundary_crossed
    laser_hit,              \* self.laser_hit
    continuous_hit_start,   \* self.continuous_hit_start, None or a clock reading
    episode_reward,         \* self.episode_reward
    previous_action,        \* self.previous_action, None or an action
    visited_positions,      \* self.visited_positions, None while the attribute does not exist
    observation_history,    \* self._observation_history, <<>> while the attribute does not exist
    mine_positions,         \* self.mine_positions of the environment
    difficulty,             \* self.difficulty, in tenths
    now,                    \* time.time(), in whole seconds
    ops,                    \* number of calls made on the environment so far
    ret,                    \* what the last reset()/step() call returned
    observer                \* observer: the frames computed lately and the calls of the episode

envVars == <<vehicle, pose, opponent_position, steps, boundary_crossed, laser_hit,
             continuous_hit_start, episode_reward, previous_action, visited_positions,
             observation_history, mine_positions, difficulty, now, ops, ret, observer>>

VARIABLES
    \* ---- LaserVehicle ----
    max_velocity,           \* self.max_velocity, mm/s
    max_angular_velocity,   \* self.max_angular_velocity, mrad/s
    veh                     \* the last call made on the vehicle and what it commanded or returned

vehVars == <<max_velocity, max_angular_velocity, veh>>

VARIABLES
    \* ---- CombatArena ----
    arena_vehicle,          \* self.vehicle: 0 for None, else the primary vehicle
    spawned,                \* vehicles spawned since the last reset(); they are numbered 1..spawned
    collision_callbacks,    \* self.collision_callbacks: whether it exists, callbacks per vehicle
    collision_count,        \* self.collision_count
    client,                 \* self.client
    arena_ret               \* the last call made on the arena and what it did

arenaVars == <<arena_vehicle, spawned, collision_callbacks, collision_count, client, arena_ret>>

VARIABLES
    \* ---- CurriculumManager._generate_random_mine_positions ----
    field               \* the last call: the positions returned, the attempts used, how many were sampled

fieldVars == <<field>>

VARIABLES
    \* ---- the physics engine of one process holding several environments ----
    proc_worlds,        \* per connection, the bodies in its world, counted by the instance that made them
    proc_vehicle,       \* per instance, whether its arena.vehicle is set
    proc_calls,         \* number of reset()/step() calls made in the process so far
    proc_last           \* the last call: its instance, what it did, whose bodies its rays could meet

procVars == <<proc_worlds, proc_vehicle, proc_calls, proc_last>>

vars == <<cmVars, envVars, vehVars, arenaVars, fieldVars, procVars>>

\* the variables of the other objects
nonCmVars == <<envVars, vehVars, arenaVars, fieldVars, procVars>>
nonEnvVars == <<cmVars, vehVars, arenaVars, fieldVars, procVars>>
nonVehVars == <<cmVars, envVars, arenaVars, fieldVars, procVars>>
nonArenaVars == <<cmVars, envVars, vehVars, fieldVars, procVars>>
nonProcVars == <<cmVars, envVars, vehVars, arenaVars, fieldVars>>
nonFieldVars == <<cmVars, envVars, vehVars, arenaVars, procVars>>

(***************************************************************************)
(* CurriculumManager: default configuration                                *)
(***************************************************************************)
promotion_threshold == 75
demotion_threshold == 40
promotion_window == 10
demotion_window == 5
initial_stage == 1
max_stage == 6

Max(a, b) == IF a >= b THEN a ELSE b
Min(a, b) == IF a <= b THEN a ELSE b

\* deque(maxlen = max(promotion_window, demotion_window))
HistoryMaxLen == Max(promotion_window, demotion_window)

\* stage_params[stage]['mines_enabled']
MinesEnabled(stage) == stage >= 4

RECURSIVE SumSeq(_)
SumSeq(s) == IF s = <<>> THEN 0 ELSE Head(s) + SumSeq(Tail(s))

\* list(h)[-n:]
LastN(h, n) == IF Len(h) <= n THEN h ELSE SubSeq(h, Len(h) - n + 1, Len(h))

\* deque.append with maxlen: a full deque drops its oldest entry
DequeAppend(h, x, maxlen) ==
    IF Len(h) < maxlen THEN Append(h, x) ELSE Append(Tail(h), x)

\* number of mine-zone bodies the arena constructor / _create_mines makes
DefaultMineCount == 3

\* setup_environment: remove the old zone bodies, recreate them when the stage has mines
SetupEnvironment(stage) == IF MinesEnabled(stage) THEN DefaultMineCount ELSE 0

\* len(self.arena.mine_objects) after setup_environment: only _create_mines rebinds the list
SetupMineObjects(stage, objects) == IF MinesEnabled(stage) THEN DefaultMineCount ELSE objects

\* _promote on <<stage, history, arena mines>>
PromoteNoClamp(st) == <<st[1] + 1, <<>>, SetupEnvironment(st[1] + 1)>>
PromoteKeepHistory(st) ==
    IF st[1] < max_stage THEN <<st[1] + 1, st[2], SetupEnvironment(st[1] + 1)>> ELSE st
Promote(st) ==
    IF st[1] < max_stage
    THEN <<st[1] + 1, <<>>, SetupEnvironment(st[1] + 1)>>
    ELSE st

\* _demote on <<stage, history, arena mines>>
Demote(st) ==
    IF st[1] > 1
    THEN <<st[1] - 1, <<>>, SetupEnvironment(st[1] - 1)>>
    ELSE st

\* promotion_win_rate >= promotion_threshold over the last promotion_window entries
PromotionRateMet(h) ==
    LET recent == LastN(h, promotion_window)
    IN  SumSeq(recent) * 100 >= promotion_threshold * Len(recent)

\* demotion_win_rate <= demotion_threshold over the last demotion_window entries
DemotionRateMetStrict(h) ==
    LET recent == LastN(h, demotion_window)
    IN  SumSeq(recent) * 100 < demotion_threshold * Len(recent)
DemotionRateMet(h) ==
    LET recent == LastN(h, demotion_window)
    IN  SumSeq(recent) * 100 <= demotion_threshold * Len(recent)

\* _check_for_promotion_or_demotion on <<stage, history, arena mines>>
CheckLatePromotion(st) ==
    IF Len(st[2]) < Min(promotion_window, demotion_window) THEN st
    ELSE IF Len(st[2]) > promotion_window /\ PromotionRateMet(st[2]) THEN Promote(st)
    ELSE IF Len(st[2]) >= demotion_window /\ DemotionRateMet(st[2]) THEN Demote(st)
    ELSE st
CheckForPromotionOrDemotion(st) ==
    IF Len(st[2]) < Min(promotion_window, demotion_window) THEN st
    ELSE IF Len(st[2]) >= promotion_window /\ PromotionRateMet(st[2]) THEN Promote(st)
    ELSE IF Len(st[2]) >= demotion_window /\ DemotionRateMet(st[2]) THEN Demote(st)
    ELSE st

NoStreak == [active |-> FALSE, base |-> 0, win |-> FALSE, log |-> <<>>]

\* observer update for one record_outcome(win) that ends in stage newStage
StreakAfter(win, newStage) ==
    IF win_history = <<>>
    THEN [active |-> TRUE, base |-> current_stage, win |-> win, log |-> <<newStage>>]
    ELSE IF streak.active /\ streak.win = win /\ Len(streak.log) < HistoryMaxLen
    THEN [streak EXCEPT !.log = Append(@, newStage)]
    ELSE NoStreak

CmInit ==
    /\ current_stage = initial_stage
    /\ win_history = <<>>
    /\ cm_arena_mines = DefaultMineCount
    /\ cm_arena_mine_objects = DefaultMineCount
    /\ cm_last = [op |-> "init", win |-> FALSE, stage |-> initial_stage]
    /\ streak = NoStreak

\* CurriculumManager.record_outcome(win)
RecordOutcome(win) ==
    LET appended == DequeAppend(win_history, IF win THEN 1 ELSE 0, HistoryMaxLen)
        after == CheckForPromotionOrDemotion(<<current_stage, appended, cm_arena_mines>>)
    IN  /\ current_stage' = after[1]
        /\ win_history' = after[2]
        /\ cm_arena_mines' = after[3]
        /\ cm_arena_mine_objects' =
              IF after[1] # current_stage
              THEN SetupMineObjects(after[1], cm_arena_mine_objects)
              ELSE cm_arena_mine_objects
        /\ cm_last' = [op |-> "record_outcome", win |-> win, stage |-> current_stage]
        /\ streak' = StreakAfter(win, after[1])

\* CurriculumManager.reset()
CurriculumReset ==
    /\ current_stage' = initial_stage
    /\ win_history' = <<>>
    /\ cm_arena_mines' = SetupEnvironment(initial_stage)
    /\ cm_arena_mine_objects' = SetupMineObjects(initial_stage, cm_arena_mine_objects)
    /\ cm_last' = [op |-> "reset", win |-> FALSE, stage |-> current_stage]
    /\ streak' = NoStreak

RecordWin == RecordOutcome(TRUE) /\ UNCHANGED nonCmVars
RecordLoss == RecordOutcome(FALSE) /\ UNCHANGED nonCmVars
CurriculumResetCall == CurriculumReset /\ UNCHANGED nonCmVars

NextCurriculum ==
    \/ RecordWin
    \/ RecordLoss
    \/ CurriculumResetCall

(***************************************************************************)
(* AdvancedLaserVehicleEnv                                                 *)
(***************************************************************************)
None == -1           \* a missing number (continuous_hit_start)
NoneSeq == <<>>      \* a missing tuple (opponent_position, previous_action)
NoVisited == [exists |-> FALSE, cells |-> {}]   \* visited_positions before its first use

\* ---- bounds of the exploration ----
MaxOps == 5         \* calls on the environment per behaviour
max_steps == 3      \* the max_steps constructor argument used here

\* ---- arena geometry (combat_arena.py), in mm ----
arena_half_size == 2000
ArenaMinePositions == << <<-1000, 0>>, <<0, 0>>, <<1000, 0>> >>
StartLowerLeft == <<-(arena_half_size - 500), -(arena_half_size - 500)>>
StartUpperRight == <<arena_half_size - 500, arena_half_size - 500>>

\* ---- thresholds of _compute_reward / _is_terminated ----
ContactRadius == 225        \* 0.075 + 0.15
DangerRadius == 375         \* 0.075 + 0.3
MineBodyRadius == 75
VictoryThreshold == 2       \* seconds of continuous hit
TerminationBound == 3500    \* |x| or |y| beyond which the episode terminates
HistoryLength == 4          \* observation_config['history_length']
DefaultDifficulty == 5      \* the constructor's difficulty=0.5, in tenths

Abs(a) == IF a < 0 THEN -a ELSE a

\* floor of the square root (np.sqrt on mm, rounded down to a whole mm)
RECURSIVE ISqrtFrom(_, _, _)
ISqrtFrom(n, r, unit) ==
    IF (r + unit) * (r + unit) > n
    THEN (IF unit = 1 THEN r ELSE ISqrtFrom(n, r, unit \div 10))
    ELSE ISqrtFrom(n, r + unit, unit)
ISqrt(n) == ISqrtFrom(n, 0, 1000)

Dist2(a, b) == (a[1] - b[1]) * (a[1] - b[1]) + (a[2] - b[2]) * (a[2] - b[2])
Dist(a, b) == ISqrt(Dist2(a, b))

\* cos and sin of a yaw given in degrees, for the four axis directions
CosQ(yaw) == CASE yaw = 0 -> 1 [] yaw = 180 -> -1 [] OTHER -> 0
SinQ(yaw) == CASE yaw = 90 -> 1 [] yaw = 270 -> -1 [] OTHER -> 0

\* 1000 * exp(-k) for the small integers the action set produces
ExpNegMilli(k) ==
    CASE k = 0 -> 1000 [] k = 1 -> 368 [] k = 2 -> 135 [] k = 3 -> 50 [] k = 4 -> 18 [] OTHER -> 0

\* int(v / 0.2) for v in mm: Python's int() truncates towards zero
GridIndex(v) == IF v >= 0 THEN v \div 200 ELSE -((-v) \div 200)

(***************************************************************************)
(* One physics tick as the environment sees it: the action the policy      *)
(* sent, the seconds of wall clock since the previous call, and what the   *)
(* engine reports afterwards (position, yaw, contacts, nearest sensor      *)
(* return, speed, and what the forward ray hits).                          *)
(***************************************************************************)
Tick(a, dt, x, y, yaw, col, ml, sp, ray) ==
    [action |-> a, elapsed |-> dt, x |-> x, y |-> y, yaw |-> yaw,
     collision |-> col, min_laser |-> ml, speed |-> sp, ray |-> ray]

Ticks == {
    \* south half, heading north, forward ray on the opponent, safe band of the middle mine
    Tick(<<1, 1>>, 1, 0, -500, 90, FALSE, 1000, 1500, "opponent"),
    \* north half, heading east along y = 1.5, forward ray on the opponent
    Tick(<<1, 1>>, 1, 500, 1500, 0, FALSE, 1000, 1200, "opponent"),
    \* north half, in contact with the right mine, ray on nothing
    Tick(<<1, -1>>, 1, 880, 160, 180, FALSE, 200, 700, "none"),
    \* south half, inside the danger ring of the middle mine and the safe band of
    \* the right one, ray on a wall
    Tick(<<1, -1>>, 0, 320, -100, 270, FALSE, 300, 1500, "other"),
    \* far outside the field on the north side
    Tick(<<1, 1>>, 1, 0, 3600, 90, FALSE, 5000, 2000, "none"),
    \* at the lower-left start corner with a contact reported, standing still
    Tick(<<0, 0>>, 0, -1500, -1500, 0, TRUE, 1000, 0, "none")
}

\* the ticks used where the difficulty varies: one in each half of the field
PlainTicks == {Tick(<<1, 1>>, 1, 500, 1500, 0, FALSE, 1000, 1200, "opponent"),
               Tick(<<1, -1>>, 0, 320, -100, 270, FALSE, 300, 1500, "other")}

\* the tick in which a sensor read of _get_observation fails
UnobservedTicks == {Tick(<<1, 1>>, 1, 0, -500, 90, FALSE, 1000, 1500, "opponent")}

\* the engine's report right after the vehicle was placed at a start corner
PlacedAt(corner) ==
    Tick(<<0, 0>>, 0, corner[1], corner[2], 0, FALSE, 1000, 0, "none")

NoPose == Tick(<<0, 0>>, 0, 0, 0, 0, FALSE, 0, 0, "none")

\* ---- the eight random mine positions reset() draws, and how many it keeps ----
MineDraws == << <<-500, 500>>, <<700, -900>>, <<1200, 300>>, <<-1300, -400>>,
                <<300, 1100>>, <<-800, 1500>>, <<1600, -1600>>, <<0, 800>> >>
\* int(self.difficulty * 8)
MineCountRounded(d) == (d * 8 + 5) \div 10
MineCount(d) == (d * 8) \div 10

\* np.clip(difficulty, 0.1, 1.0), in tenths
ClipDifficulty(d) == Max(1, Min(10, d))

\* the difficulties set_difficulty is called with: below the range, inside it, above it
DifficultyInputs == {0, 3, 7, 15}

(***************************************************************************)
(* _compute_reward                                                         *)
(***************************************************************************)
\* the loop over self.arena.mine_positions; acc is reward_components['mine_penalty'] so far
RECURSIVE MineLoop(_, _, _)
MineLoopBodyRadiusOnly(pos, mines, acc) ==
    IF mines = <<>> THEN acc
    ELSE LET d2 == Dist2(pos, Head(mines))
             d == ISqrt(d2)
         IN  IF d2 < MineBodyRadius * MineBodyRadius
             THEN -15000
             ELSE IF d2 < DangerRadius * DangerRadius
             THEN MineLoop(pos, Tail(mines), Min(acc, -2000 + (20 * (d - MineBodyRadius)) \div 3))
             ELSE IF d2 < 700 * 700 /\ d2 > 300 * 300
             THEN MineLoop(pos, Tail(mines), acc + (d - 300) \div 2)
             ELSE MineLoop(pos, Tail(mines), acc)
MineLoop(pos, mines, acc) ==
    IF mines = <<>> THEN acc
    ELSE LET d2 == Dist2(pos, Head(mines))
             d == ISqrt(d2)
         IN  IF d2 < ContactRadius * ContactRadius
             THEN -15000
             ELSE IF d2 < DangerRadius * DangerRadius
             THEN MineLoop(pos, Tail(mines), Min(acc, -2000 + (20 * (d - MineBodyRadius)) \div 3))
             ELSE IF d2 < 700 * 700 /\ d2 > 300 * 300
             THEN MineLoop(pos, Tail(mines), acc + (d - 300) \div 2)
             ELSE MineLoop(pos, Tail(mines), acc)

\* 0.8 * proximity_factor for a distance to the opponent in mm
ProximityReward(d) ==
    IF d < 1000 THEN (800 * d) \div 1000
    ELSE 800 - Min(800, (800 * (d - 1000)) \div 2000)

\* 0.5 * max(0, cos(relative_angle)): the cosine of the angle between the heading and the opponent
AlignmentReward(p, opp) ==
    LET d == Dist(<<p.x, p.y>>, opp)
        dot == (opp[1] - p.x) * CosQ(p.yaw) + (opp[2] - p.y) * SinQ(p.yaw)
    IN  IF d = 0 THEN 500 ELSE (500 * Max(0, dot)) \div d

\* the gate of the distance and rotation rewards
GateOpen(crossed) == TRUE
Gate(crossed) == crossed

\* laser_hit as _compute_reward reads it from its info argument
InfoLaserHit(info) == IF info.isdict THEN info.laser_hit ELSE FALSE

\* reward_components of _compute_reward(action, info), read at clock t; prev is
\* self.previous_action, visited is self.visited_positions, n is self.steps
RewardComponents(p, info, t, opp, crossed, hitStart, prev, visited, n) ==
    LET pos == <<p.x, p.y>>
        laserOn == InfoLaserHit(info)
        dur == IF hitStart = None THEN 0 ELSE t - hitStart
        oob == Abs(p.x) > arena_half_size \/ Abs(p.y) > arena_half_size
        nearStart == Dist2(pos, StartLowerLeft) < 500 * 500 /\ n > 100
        goalBack == IF opp # NoneSeq /\ nearStart THEN 3000 ELSE 0
        victory == laserOn /\ hitStart # None /\ dur >= VictoryThreshold
        laserBase == IF laserOn
                     THEN 2000 + (IF hitStart # None THEN Min(5000, dur * 2000) ELSE 0)
                     ELSE 0
        laserSafe == IF p.min_laser < 300 THEN -((500 * (300 - p.min_laser)) \div 300)
                     ELSE IF p.min_laser > 300 THEN 100 ELSE 0
        speedDiff == Abs(p.speed - 1500)
        speedTerm == IF speedDiff < 500 THEN 200 - (200 * speedDiff) \div 500
                     ELSE -Min(100, (100 * (speedDiff - 500)) \div 1000)
        actionDiff == IF prev = NoneSeq THEN 0
                      ELSE Abs(p.action[1] - prev[1]) + Abs(p.action[2] - prev[2])
        smoothTerm == IF prev = NoneSeq THEN 0 ELSE (200 * ExpNegMilli(actionDiff)) \div 1000
        energy == p.action[1] * p.action[1] + p.action[2] * p.action[2]
        cell == <<GridIndex(p.x + arena_half_size), GridIndex(p.y + arena_half_size)>>
        c == [survival_reward |-> 10,
              distance_reward |-> IF opp # NoneSeq /\ Gate(crossed)
                                  THEN ProximityReward(Dist(pos, opp)) ELSE 0,
              rotation_reward |-> IF opp # NoneSeq /\ Gate(crossed)
                                  THEN AlignmentReward(p, opp) ELSE 0,
              waypoint_reward |-> IF crossed THEN 300 ELSE 0,
              laser_reward |-> laserBase + laserSafe,
              goal_reward |-> IF victory THEN 50000 ELSE goalBack,
              mine_penalty |-> MineLoop(pos, ArenaMinePositions, 0),
              collision_reward |-> IF p.collision THEN -5000 ELSE 0,
              out_of_bounds |-> IF oob THEN -5000 ELSE 0,
              smooth_reward |-> speedTerm + smoothTerm,
              exploration_reward |-> IF visited.exists /\ cell \notin visited.cells THEN 100 ELSE 0,
              energy_conservation |-> (100 * ExpNegMilli(energy)) \div 1000,
              time_penalty |-> -5]
    IN  c

TotalReward(c) ==
    c.survival_reward + c.distance_reward + c.rotation_reward + c.waypoint_reward
    + c.laser_reward + c.goal_reward + c.mine_penalty + c.collision_reward
    + c.out_of_bounds + c.smooth_reward + c.exploration_reward
    + c.energy_conservation + c.time_penalty

\* self.visited_positions after _compute_reward
VisitedAfter(p, visited) ==
    LET cell == <<GridIndex(p.x + arena_half_size), GridIndex(p.y + arena_half_size)>>
    IN  [exists |-> TRUE, cells |-> visited.cells \cup {cell}]

NoComponents ==
    [survival_reward |-> 0, distance_reward |-> 0, rotation_reward |-> 0,
     waypoint_reward |-> 0, laser_reward |-> 0, goal_reward |-> 0, mine_penalty |-> 0,
     collision_reward |-> 0, out_of_bounds |-> 0, smooth_reward |-> 0,
     exploration_reward |-> 0, energy_conservation |-> 0, time_penalty |-> 0]

(***************************************************************************)
(* _check_boundary_crossed, _check_laser_hit, _is_terminated, _is_truncated *)
(***************************************************************************)
\* the new value of self.boundary_crossed
CheckBoundaryFollowsPosition(p, crossed) == p.y > 0
CheckBoundaryCrossed(p, crossed) == IF p.y > 0 /\ ~crossed THEN TRUE ELSE crossed

\* <<laser_hit, continuous_hit_start, returned hit>> after _check_laser_hit at clock t
CheckLaserHitRestarts(p, crossed, hit, hitStart, t) ==
    IF ~crossed THEN <<FALSE, None, FALSE>>
    ELSE IF p.ray = "opponent" THEN <<TRUE, t, TRUE>>
    ELSE <<FALSE, None, FALSE>>
CheckLaserHit(p, crossed, hit, hitStart, t) ==
    IF ~crossed THEN <<FALSE, None, FALSE>>
    ELSE IF p.ray = "opponent"
    THEN (IF ~hit THEN <<TRUE, t, TRUE>> ELSE <<hit, hitStart, TRUE>>)
    ELSE <<FALSE, None, FALSE>>

\* the mine test of _is_terminated; its guard self.arena.mine_objects is non-empty
\* whenever a vehicle exists, because CombatArena.reset() ends in _create_mines()
MineContact(p) ==
    \E i \in 1..Len(ArenaMinePositions) :
        Dist2(<<p.x, p.y>>, ArenaMinePositions[i]) < ContactRadius * ContactRadius

IsTerminatedNoVictory(p, hitStart, t) ==
    \/ p.collision
    \/ MineContact(p)
    \/ Abs(p.x) > TerminationBound \/ Abs(p.y) > TerminationBound
IsTerminatedNoMines(p, hitStart, t) ==
    \/ p.collision
    \/ hitStart # None /\ t - hitStart >= VictoryThreshold
    \/ Abs(p.x) > TerminationBound \/ Abs(p.y) > TerminationBound
IsTerminated(p, hitStart, t) ==
    \/ p.collision
    \/ MineContact(p)
    \/ hitStart # None /\ t - hitStart >= VictoryThreshold
    \/ Abs(p.x) > TerminationBound \/ Abs(p.y) > TerminationBound

IsTruncatedLate(n) == n > max_steps
IsTruncated(n) == n >= max_steps

(***************************************************************************)
(* _get_observation                                                        *)
(***************************************************************************)
\* the 40-value frame, reduced to the quantities it is computed from
Frame(p, opp, crossed, hit, hitStart, mines, t) ==
    [x |-> p.x, y |-> p.y, yaw |-> p.yaw, min_laser |-> p.min_laser, speed |-> p.speed,
     opponent_distance |-> IF opp = NoneSeq THEN 0 ELSE Dist(<<p.x, p.y>>, opp),
     boundary_distance |-> Abs(p.y),
     boundary_crossed |-> IF crossed THEN 1 ELSE 0,
     mines |-> Len(mines),
     laser_hit |-> IF hit THEN 1 ELSE 0,
     hit_time |-> IF hitStart = None THEN 0 ELSE Min(t - hitStart, 10)]

ZeroFrame ==
    [x |-> 0, y |-> 0, yaw |-> 0, min_laser |-> 0, speed |-> 0, opponent_distance |-> 0,
     boundary_distance |-> 0, boundary_crossed |-> 0, mines |-> 0, laser_hit |-> 0,
     hit_time |-> 0]

ZeroObservation == [i \in 1..HistoryLength |-> ZeroFrame]

\* the arrays np.concatenate joins into one frame, by their number of entries
FrameParts ==
    [laser_distances |-> 16, position |-> 3, orientation |-> 3, velocity |-> 3,
     angular_velocity |-> 3, opponent_info |-> 4, boundary_info |-> 2, mine_info |-> 2,
     laser_info |-> 2, padding |-> 2]

FrameSize ==
    FrameParts.laser_distances + FrameParts.position + FrameParts.orientation
    + FrameParts.velocity + FrameParts.angular_velocity + FrameParts.opponent_info
    + FrameParts.boundary_info + FrameParts.mine_info + FrameParts.laser_info
    + FrameParts.padding

\* observation_space.shape[0]: (lasers + 24) * history_length
n_inputs == (FrameParts.laser_distances + 24) * HistoryLength

\* number of entries of a returned observation: np.concatenate over the stacked
\* frames, or the np.zeros(n_inputs) vector returned on failure
ObservationSize(obs) == IF obs = ZeroObservation THEN n_inputs ELSE Len(obs) * FrameSize

\* self._observation_history after a frame was computed
HistoryAfterNewestFirst(history, frame) ==
    LET primed == IF history = <<>> THEN [i \in 1..HistoryLength |-> frame] ELSE history
    IN  <<frame>> \o SubSeq(primed, 1, HistoryLength - 1)
HistoryAfterUnprimed(history, frame) == DequeAppend(history, frame, HistoryLength)
HistoryAfter(history, frame) ==
    LET primed == IF history = <<>> THEN [i \in 1..HistoryLength |-> frame] ELSE history
    IN  DequeAppend(primed, frame, HistoryLength)

(***************************************************************************)
(* reset() and step()                                                      *)
(***************************************************************************)
Returned(op, raised, obs, reward, comps, terminated, truncated, hit) ==
    [op |-> op, raised |-> raised, observation |-> obs, reward |-> reward,
     reward_components |-> comps, terminated |-> terminated, truncated |-> truncated,
     hit |-> hit]

\* observer: the last HistoryLength frames computed, each with the call that
\* computed it; the step() calls and the frames they computed since the last
\* reset(); whether the last call built its observation
Observed(recent, calls, frames, built) ==
    [recent |-> recent, step_calls |-> calls, episode_frames |-> frames, built |-> built]

Computed(frame, op, call) == [frame |-> frame, op |-> op, call |-> call]

RecentAfter(recent, entry) ==
    LET all == Append(recent, entry)
    IN  IF Len(all) <= HistoryLength THEN all
        ELSE SubSeq(all, Len(all) - HistoryLength + 1, Len(all))

EnvInit ==
    /\ vehicle = FALSE
    /\ pose = NoPose
    /\ opponent_position = NoneSeq
    /\ steps = 0
    /\ boundary_crossed = FALSE
    /\ laser_hit = FALSE
    /\ continuous_hit_start = None
    /\ episode_reward = 0
    /\ previous_action = NoneSeq
    /\ visited_positions = NoVisited
    /\ observation_history = <<>>
    /\ mine_positions = <<>>
    /\ difficulty = DefaultDifficulty
    /\ now = 0
    /\ ops = 0
    /\ ret = Returned("init", FALSE, ZeroObservation, 0, NoComponents, FALSE, FALSE, FALSE)
    /\ observer = Observed(<<>>, 0, 0, FALSE)

\* set_difficulty(d)
SetDifficulty(d) ==
    /\ ops < MaxOps
    /\ ops' = ops + 1
    /\ difficulty' = ClipDifficulty(d)
    /\ UNCHANGED <<vehicle, pose, opponent_position, steps, boundary_crossed, laser_hit,
                   continuous_hit_start, episode_reward, previous_action, visited_positions,
                   observation_history, mine_positions, now, ret, observer>>

\* reset(): the arena is rebuilt, both vehicles are placed, the first frame is taken
Reset(corner) ==
    LET placed == PlacedAt(corner)
        opp == IF corner[1] < 0 THEN StartUpperRight ELSE StartLowerLeft
        mines == SubSeq(MineDraws, 1, MineCount(difficulty))
        frame == Frame(placed, opp, boundary_crossed, laser_hit, continuous_hit_start, mines, now)
        history == HistoryAfter(observation_history, frame)
    IN  /\ ops < MaxOps
        /\ ops' = ops + 1
        /\ steps' = 0
        /\ vehicle' = TRUE
        /\ pose' = placed
        /\ opponent_position' = opp
        /\ mine_positions' = mines
        /\ observation_history' = history
        /\ previous_action' = NoneSeq
        /\ ret' = Returned("reset", FALSE, history, 0, NoComponents, FALSE, FALSE, FALSE)
        /\ observer' = Observed(RecentAfter(observer.recent, Computed(frame, ops + 1, "reset")),
                                0, 0, TRUE)
        /\ UNCHANGED <<boundary_crossed, laser_hit, continuous_hit_start, episode_reward,
                       visited_positions, difficulty, now>>

\* reset() when spawning the primary vehicle fails after the arena was cleared
ResetFails ==
    /\ ops < MaxOps
    /\ ops' = ops + 1
    /\ steps' = 0
    /\ vehicle' = FALSE
    /\ pose' = NoPose
    /\ previous_action' = NoneSeq
    /\ ret' = Returned("reset", FALSE, ZeroObservation, 0, NoComponents, FALSE, FALSE, FALSE)
    /\ observer' = Observed(observer.recent, 0, 0, FALSE)
    /\ UNCHANGED <<opponent_position, mine_positions, observation_history, boundary_crossed,
                   laser_hit, continuous_hit_start, episode_reward, visited_positions,
                   difficulty, now>>

\* step(action) with a primary vehicle in the arena; the clock readings of one
\* call (in _check_laser_hit, _compute_reward, _is_terminated) are taken as one instant t.
\* built is FALSE when a sensor read of _get_observation raises: the except branch
\* returns the zero vector and the history is left as it was
Step(tk, built) ==
    LET t == now + tk.elapsed
        n == steps + 1
        crossed == CheckBoundaryCrossed(tk, boundary_crossed)
        lh == CheckLaserHit(tk, crossed, laser_hit, continuous_hit_start, t)
        frame == Frame(tk, opponent_position, crossed, lh[1], lh[2], mine_positions, t)
        history == IF built THEN HistoryAfter(observation_history, frame)
                   ELSE observation_history
        comps == RewardComponents(tk, [isdict |-> FALSE, laser_hit |-> lh[3]], t,
                                  opponent_position, crossed, lh[2], previous_action,
                                  visited_positions, n)
        reward == TotalReward(comps)
    IN  /\ ops < MaxOps
        /\ vehicle
        /\ ops' = ops + 1
        /\ steps' = n
        /\ pose' = tk
        /\ now' = t
        /\ boundary_crossed' = crossed
        /\ laser_hit' = lh[1]
        /\ continuous_hit_start' = lh[2]
        /\ observation_history' = history
        /\ episode_reward' = episode_reward + reward
        /\ previous_action' = tk.action
        /\ visited_positions' = VisitedAfter(tk, visited_positions)
        /\ ret' = Returned("step", FALSE, IF built THEN history ELSE ZeroObservation,
                           reward, comps, IsTerminated(tk, lh[2], t), IsTruncated(n), lh[3])
        /\ observer' =
              IF built
              THEN Observed(RecentAfter(observer.recent, Computed(frame, ops + 1, "step")),
                            observer.step_calls + 1, observer.episode_frames + 1, TRUE)
              ELSE Observed(observer.recent, observer.step_calls + 1,
                            observer.episode_frames, FALSE)
        /\ UNCHANGED <<vehicle, opponent_position, mine_positions, difficulty>>

\* step(action) without a primary vehicle: self.arena.vehicle.apply_action raises
StepRaises ==
    /\ ops < MaxOps
    /\ ~vehicle
    /\ ops' = ops + 1
    /\ steps' = steps + 1
    /\ ret' = Returned("step", TRUE, ZeroObservation, 0, NoComponents, FALSE, FALSE, FALSE)
    /\ observer' = Observed(observer.recent, observer.step_calls + 1,
                            observer.episode_frames, FALSE)
    /\ UNCHANGED <<vehicle, pose, opponent_position, mine_positions, observation_history,
                   boundary_crossed, laser_hit, continuous_hit_start, episode_reward,
                   previous_action, visited_positions, difficulty, now>>

ResetOk == (\E corner \in {StartLowerLeft, StartUpperRight} : Reset(corner)) /\ UNCHANGED nonEnvVars
ResetFailed == ResetFails /\ UNCHANGED nonEnvVars
StepOk == (\E tk \in Ticks : Step(tk, TRUE)) /\ UNCHANGED nonEnvVars
StepUnobserved == (\E tk \in UnobservedTicks : Step(tk, FALSE)) /\ UNCHANGED nonEnvVars
StepRaised == StepRaises /\ UNCHANGED nonEnvVars
SetDifficultyCall == (\E d \in DifficultyInputs : SetDifficulty(d)) /\ UNCHANGED nonEnvVars

NextEnv ==
    \/ ResetOk
    \/ ResetFailed
    \/ StepOk
    \/ StepUnobserved
    \/ StepRaised

\* the environment under set_difficulty: every difficulty input, two of the ticks
StepPlain == (\E tk \in PlainTicks : Step(tk, TRUE)) /\ UNCHANGED nonEnvVars

NextDifficulty ==
    \/ SetDifficultyCall
    \/ ResetOk
    \/ ResetFailed
    \/ StepPlain
    \/ StepUnobserved
    \/ StepRaised

(***************************************************************************)
(* LaserVehicle                                                            *)
(***************************************************************************)
DefaultMaxVelocity == 2000      \* self.max_velocity = 2.0
PiMicro == 3141593              \* math.pi
WheelBase == 165                \* self.size[1] * 1.1 for the 0.15 m wide vehicle
laser_max_distance == 5000      \* self.laser_max_distance = 5.0
NumRays == 16                   \* np.linspace(..., 16)

\* math.pi * (1.5 + 0.5 * difficulty), difficulty in tenths
MaxAngular(d) == (PiMicro * (150 + 5 * d)) \div 100000

Clip(v, lo, hi) == Max(lo, Min(hi, v))

\* np.clip(action[i], -1.0, 1.0) * self.max_velocity
WheelVelocityUnclamped(a, maxv) == (a * maxv) \div 1000
WheelVelocity(a, maxv) == (Clip(a, -1000, 1000) * maxv) \div 1000

LinearVelocity(left, right) == (left + right) \div 2

\* (right - left) / (size[1] * 1.1), clipped to the angular limit
AngularVelocity(left, right, maxang) ==
    Clip(((right - left) * 1000) \div WheelBase, -maxang, maxang)

\* a failure of one engine call: where it is detected, its kind, and whether
\* a reconnect attempt would succeed
Fault(site, kind, ok) == [site |-> site, kind |-> kind, reconnect_ok |-> ok]
NoFault == Fault("none", "none", FALSE)
FaultKinds == {"not_connected", "other"}

\* the engine calls of apply_action: the pose query, the velocity command, the
\* calls of fire_laser, the calls of draw_direction_indicator
VehicleFaults ==
    {NoFault} \cup
    {Fault(site, kind, FALSE) :
        site \in {"pose_query", "velocity_command", "laser_ray", "indicator"},
        kind \in FaultKinds}

\* one get_laser_distances scene: rays first..last hit something at the given
\* fraction (in 1/1000) of the ray length, the other rays hit nothing
Scene(first, last, fraction) == [first |-> first, last |-> last, fraction |-> fraction]
NoScene == Scene(1, 0, 1000)
LaserScenes ==
    {NoScene} \cup
    {Scene(a, b, f) : a \in {1, 2, 9, NumRays}, b \in {1, 2, 9, NumRays}, f \in {0, 250, 1000}}

\* p.rayTest for ray i: the object hit (-1 for none) and the hit fraction
RayResult(scene, i) ==
    IF i >= scene.first /\ i <= scene.last
    THEN [object |-> 1, fraction |-> scene.fraction]
    ELSE [object |-> -1, fraction |-> 1000]

\* distances[i] after the loop body of get_laser_distances
RayDistanceZeroOnMiss(result) ==
    IF result.object # -1 THEN (result.fraction * laser_max_distance) \div 1000
    ELSE 0
RayDistance(result) ==
    IF result.object # -1 THEN (result.fraction * laser_max_distance) \div 1000
    ELSE laser_max_distance

VehicleCall(op, action, yaw, fault, raised, commanded, linear, angular, scene, distances) ==
    [op |-> op, action |-> action, yaw |-> yaw, fault |-> fault, raised |-> raised,
     reconnect |-> FALSE, commanded |-> commanded, linear |-> linear, angular |-> angular,
     scene |-> scene, distances |-> distances]

VehInit ==
    /\ max_velocity = DefaultMaxVelocity
    /\ max_angular_velocity = MaxAngular(0)
    /\ veh = VehicleCall("init", <<0, 0>>, 0, NoFault, "none", FALSE, <<0, 0>>, 0, NoScene, <<>>)

\* LaserVehicle.set_difficulty(d)
VehicleSetDifficulty(d) ==
    /\ max_velocity' = DefaultMaxVelocity + 100 * d
    /\ max_angular_velocity' = MaxAngular(d)
    /\ veh' = VehicleCall("set_difficulty", <<0, 0>>, 0, NoFault, "none", FALSE, <<0, 0>>, 0,
                          NoScene, <<>>)

\* apply_action(action) with the vehicle heading at yaw; fault is the engine
\* call that fails, if any. Nothing in apply_action catches an engine error;
\* fire_laser re-raises "not connected" and swallows every other error
ApplyAction(action, yaw, fault) ==
    LET left == WheelVelocity(action[1], max_velocity)
        right == WheelVelocity(action[2], max_velocity)
        linear == LinearVelocity(left, right)
        angular == AngularVelocity(left, right, max_angular_velocity)
        commanded == fault.site \notin {"pose_query", "velocity_command"}
        raised == IF fault.site \in {"pose_query", "velocity_command", "indicator"}
                  THEN fault.kind
                  ELSE IF fault.site = "laser_ray" /\ fault.kind = "not_connected"
                  THEN "not_connected"
                  ELSE "none"
    IN  /\ veh' = IF Len(action) # 2
                  THEN VehicleCall("apply_action", action, yaw, fault, "ValueError", FALSE,
                                   <<0, 0>>, 0, NoScene, <<>>)
                  ELSE VehicleCall("apply_action", action, yaw, fault, raised, commanded,
                                   IF commanded
                                   THEN <<linear * CosQ(yaw), linear * SinQ(yaw)>>
                                   ELSE <<0, 0>>,
                                   IF commanded THEN angular ELSE 0, NoScene, <<>>)
        /\ UNCHANGED <<max_velocity, max_angular_velocity>>

\* get_laser_distances() in a scene
GetLaserDistances(scene) ==
    /\ veh' = VehicleCall("get_laser_distances", <<0, 0>>, 0, NoFault, "none", FALSE,
                          <<0, 0>>, 0, scene,
                          [i \in 1..NumRays |-> RayDistance(RayResult(scene, i))])
    /\ UNCHANGED <<max_velocity, max_angular_velocity>>

\* wheel commands in 1/1000: inside [-1, 1], at its ends, and the x3-scaled
\* values step() sends
WheelInputs == {-3000, -1000, -500, 250, 3000}
ActionInputs ==
    {<<a, b>> : a \in WheelInputs, b \in WheelInputs} \cup {<<1000, 1000, 0>>}
YawInputs == {0, 270}
VehicleDifficultyInputs == {0, 5, 10}

VehicleSetDifficultyCall ==
    (\E d \in VehicleDifficultyInputs : VehicleSetDifficulty(d)) /\ UNCHANGED nonVehVars
ApplyActionCall ==
    (\E action \in ActionInputs : \E yaw \in YawInputs : \E fault \in VehicleFaults :
        ApplyAction(action, yaw, fault)) /\ UNCHANGED nonVehVars
GetLaserDistancesCall ==
    (\E scene \in LaserScenes :
        (scene = NoScene \/ scene.first <= scene.last) /\ GetLaserDistances(scene))
    /\ UNCHANGED nonVehVars

NextVehicle ==
    \/ VehicleSetDifficultyCall
    \/ ApplyActionCall
    \/ GetLaserDistancesCall

(***************************************************************************)
(* CombatArena                                                             *)
(***************************************************************************)
\* ---- bounds of the exploration ----
MaxVehicles == 2        \* vehicles spawned between two resets
MaxCallbacks == 1       \* callbacks registered per vehicle
MaxCollisions == 2      \* cap on a vehicle's collision count
MaxTicks == 2           \* the n of step_simulation(n)
MaxClients == 1         \* reconnects per behaviour

VehicleIds == 1..MaxVehicles
MineZones == 1..DefaultMineCount

\* the engine calls of one tick of step_simulation
ArenaFaults ==
    {NoFault} \cup
    {Fault(site, "not_connected", ok) :
        site \in {"physics_tick", "contact_query"}, ok \in BOOLEAN} \cup
    {Fault(site, "other", FALSE) : site \in {"physics_tick", "contact_query"}}

\* which vehicle touches which mine zone during the ticks of one call
ContactScenes ==
    { {}, {<<1, 2>>}, {<<2, 2>>}, {<<1, 1>>, <<1, 3>>}, {<<1, 3>>, <<2, 1>>} }

ArenaCall(op, n, contacts, fault, raised, reconnect, tested, invoked, counted) ==
    [op |-> op, n |-> n, contacts |-> contacts, fault |-> fault, raised |-> raised,
     reconnect |-> reconnect, tested |-> tested, invoked |-> invoked, counted |-> counted]

NoneInvoked == [v \in VehicleIds |-> 0]

PlainCall(op, raised) == ArenaCall(op, 0, {}, NoFault, raised, FALSE, {}, NoneInvoked, NoneInvoked)

\* CombatArena.__init__: collision_count exists, collision_callbacks does not
ArenaInit ==
    /\ arena_vehicle = 0
    /\ spawned = 0
    /\ collision_callbacks = [exists |-> FALSE, registered |-> NoneInvoked]
    /\ collision_count = NoneInvoked
    /\ client = 0
    /\ arena_ret = PlainCall("init", "none")

\* CombatArena.reset()
ArenaReset ==
    /\ arena_vehicle' = 0
    /\ spawned' = 0
    /\ collision_callbacks' = [exists |-> TRUE, registered |-> NoneInvoked]
    /\ collision_count' = NoneInvoked
    /\ arena_ret' = PlainCall("reset", "none")
    /\ UNCHANGED client

\* spawn_vehicle(...): only the first vehicle spawned becomes self.vehicle
SpawnVehicle ==
    /\ spawned < MaxVehicles
    /\ spawned' = spawned + 1
    /\ arena_vehicle' = IF arena_vehicle = 0 THEN spawned + 1 ELSE arena_vehicle
    /\ arena_ret' = PlainCall("spawn_vehicle", "none")
    /\ UNCHANGED <<collision_callbacks, collision_count, client>>

\* register_collision_callback(body, f)
RegisterCollisionCallback(body) ==
    /\ collision_callbacks.registered[body] < MaxCallbacks
    /\ IF collision_callbacks.exists
       THEN /\ collision_callbacks' =
                  [collision_callbacks EXCEPT !.registered[body] = @ + 1]
            /\ arena_ret' = PlainCall("register_collision_callback", "none")
       ELSE /\ arena_ret' = PlainCall("register_collision_callback", "AttributeError")
            /\ UNCHANGED collision_callbacks
    /\ UNCHANGED <<arena_vehicle, spawned, collision_count, client>>

\* check_mine_collisions(v): the first mine zone of self.mines in contact with v, 0 for none
FirstContact(v, contacts) ==
    IF \E m \in MineZones : <<v, m>> \in contacts
    THEN CHOOSE m \in MineZones :
            /\ <<v, m>> \in contacts
            /\ \A k \in MineZones : <<v, k>> \in contacts => m <= k
    ELSE 0

\* check_mine_collisions(body) called directly, with the engine connected: at the
\* first zone in contact the callbacks registered for body are invoked, its
\* collision count is incremented and True is returned (counted[body] = 1);
\* without collision_callbacks the lookup raises before anything is counted
CheckMineCollisions(body, contacts) ==
    LET zone == FirstContact(body, contacts)
        attrError == zone # 0 /\ ~collision_callbacks.exists
        hit == zone # 0 /\ ~attrError
    IN  /\ body <= spawned
        /\ \A pair \in contacts : pair[1] <= spawned
        /\ hit => collision_count[body] < MaxCollisions
        /\ collision_count' =
              IF hit THEN [collision_count EXCEPT ![body] = @ + 1] ELSE collision_count
        /\ arena_ret' =
              ArenaCall("check_mine_collisions", 0, contacts, NoFault,
                        IF attrError THEN "AttributeError" ELSE "none", FALSE, {body},
                        [v \in VehicleIds |->
                            IF v = body /\ hit THEN collision_callbacks.registered[v] ELSE 0],
                        [v \in VehicleIds |-> IF v = body /\ hit THEN 1 ELSE 0])
        /\ UNCHANGED <<arena_vehicle, spawned, collision_callbacks, client>>

\* the vehicles step_simulation hands to check_mine_collisions after a tick
CheckedVehicles(primary, count) == IF primary # 0 THEN {primary} ELSE {}

\* step_simulation(n) while the vehicles touch the mine zones as in contacts;
\* fault is the engine call of the last tick that fails, if any (none when an
\* earlier tick already left the loop with an AttributeError)
StepSimulation(n, contacts, fault) ==
    LET checked == CheckedVehicles(arena_vehicle, spawned)
        complete == IF fault = NoFault THEN n ELSE n - 1
        touching == {v \in checked : FirstContact(v, contacts) # 0}
        attrError == complete >= 1 /\ touching # {} /\ ~collision_callbacks.exists
        hits == IF attrError THEN 0 ELSE complete
        reconnect == ~attrError /\ fault.kind = "not_connected"
        raised == IF attrError THEN "AttributeError"
                  ELSE IF fault = NoFault THEN "none"
                  ELSE IF fault.kind = "other" THEN "other"
                  ELSE IF fault.reconnect_ok THEN "none"
                  ELSE "reconnect_failed"
    IN  /\ \A pair \in contacts : pair[1] <= spawned
        /\ fault.site = "contact_query" => checked # {}
        /\ attrError => fault = NoFault
        /\ (fault.kind = "not_connected" /\ fault.reconnect_ok) => client < MaxClients
        /\ \A v \in touching : collision_count[v] + n <= MaxCollisions
        /\ collision_count' =
              [v \in VehicleIds |->
                  IF v \in touching THEN collision_count[v] + hits ELSE collision_count[v]]
        /\ client' = IF reconnect /\ fault.reconnect_ok THEN client + 1 ELSE client
        /\ arena_ret' =
              ArenaCall("step_simulation", n, contacts, fault, raised, reconnect,
                        IF complete >= 1 \/ fault.site = "contact_query" THEN checked ELSE {},
                        [v \in VehicleIds |->
                            IF v \in touching
                            THEN hits * collision_callbacks.registered[v] ELSE 0],
                        [v \in VehicleIds |-> IF v \in touching THEN hits ELSE 0])
        /\ UNCHANGED <<arena_vehicle, spawned, collision_callbacks>>

ArenaResetCall == ArenaReset /\ UNCHANGED nonArenaVars
SpawnVehicleCall == SpawnVehicle /\ UNCHANGED nonArenaVars
RegisterCollisionCallbackCall ==
    (\E body \in VehicleIds : RegisterCollisionCallback(body)) /\ UNCHANGED nonArenaVars
CheckMineCollisionsCall ==
    (\E body \in VehicleIds : \E contacts \in ContactScenes :
        CheckMineCollisions(body, contacts)) /\ UNCHANGED nonArenaVars
StepSimulationCall ==
    (\E n \in 1..MaxTicks : \E contacts \in ContactScenes : \E fault \in ArenaFaults :
        StepSimulation(n, contacts, fault)) /\ UNCHANGED nonArenaVars

NextArena ==
    \/ ArenaResetCall
    \/ SpawnVehicleCall
    \/ RegisterCollisionCallbackCall
    \/ CheckMineCollisionsCall
    \/ StepSimulationCall

(***************************************************************************)
(* CurriculumManager._generate_random_mine_positions                       *)
(*                                                                         *)
(* One call is one action; the random draws of its sampling loop are its    *)
(* input, one point per attempt.                                           *)
(***************************************************************************)
\* the attempts of the sampling loop (100 in the source)
max_attempts == 4

\* self.arena.mine_radius
mine_radius == 500

\* the lattice that fills the positions sampling did not place
default_positions == << <<-1000, 0>>, <<0, 0>>, <<1000, 0>> >>

\* the points random.uniform(-1.5, 1.5) x random.uniform(-1.5, 1.5) is drawn from
SamplePoints == { <<-1500, -1500>>, <<1500, 1500>>, <<1500, -1500>>,
                  <<-1200, -1300>>, <<200, 100>>, <<900, 0>> }

\* dist < 2 * self.arena.mine_radius against some position already placed
Overlap(pt, mines) ==
    \E i \in 1..Len(mines) :
        Dist2(pt, mines[i]) < (2 * mine_radius) * (2 * mine_radius)

\* the sampling loop from attempt number attempts on: <<mines, attempts>> at its exit
RECURSIVE SampleLoop(_, _, _)
SampleLoop(mines, attempts, draws) ==
    IF Len(mines) < 3 /\ attempts < max_attempts
    THEN LET pt == draws[attempts + 1]
         IN  SampleLoop(IF Overlap(pt, mines) THEN mines ELSE Append(mines, pt),
                        attempts + 1, draws)
    ELSE <<mines, attempts>>

\* while len(mines) < 3: mines.append(default_positions[len(mines)])
RECURSIVE FillDefaults(_)
FillDefaults(mines) ==
    IF Len(mines) < 3 THEN FillDefaults(Append(mines, default_positions[Len(mines) + 1]))
    ELSE mines

Generated(mines, attempts, sampled, calls) ==
    [mines |-> mines, attempts |-> attempts, sampled |-> sampled, returned |-> calls]

FieldInit == field = Generated(<<>>, 0, 0, FALSE)

\* _generate_random_mine_positions() with the given draws
GenerateRandomMinePositions(draws) ==
    LET loop == SampleLoop(<<>>, 0, draws)
    IN  field' = Generated(FillDefaults(loop[1]), loop[2], Len(loop[1]), TRUE)

GenerateRandomMinePositionsCall ==
    (\E draws \in [1..max_attempts -> SamplePoints] : GenerateRandomMinePositions(draws))
        /\ UNCHANGED nonFieldVars

NextMineField == GenerateRandomMinePositionsCall

(***************************************************************************)
(* Several AdvancedLaserVehicleEnv instances in one process (DummyVecEnv)  *)
(*                                                                         *)
(* Instance i holds connection ClientOf(i).  An engine call that passes    *)
(* physicsClientId goes to that connection; one that does not goes to the  *)
(* engine's default connection, the first one made in the process.         *)
(***************************************************************************)
MaxInstances == 2
MaxProcCalls == 6

Instances == 1..MaxInstances

\* p.connect(p.DIRECT) in __init__: connection ids are handed out from 0
ClientOf(i) == i - 1

\* the connection that serves a call made without physicsClientId
DefaultClient == 0

\* the constructors have run in order: plane.urdf is loaded with physicsClientId,
\* ground, boundaries and mine zones are created without it
ProcInit ==
    /\ proc_worlds = [c \in {ClientOf(i) : i \in Instances} |->
                        [i \in Instances |->
                            (IF c = ClientOf(i) THEN 1 ELSE 0)
                            + (IF c = DefaultClient THEN 1 ELSE 0)]]
    /\ proc_vehicle = [i \in Instances |-> FALSE]
    /\ proc_calls = 0
    /\ proc_last = [inst |-> 0, op |-> "init", raised |-> FALSE, seen |-> {}]

\* reset() of instance i: resetSimulation(physicsClientId=self.client) empties its
\* own world; ground, boundaries, mine zones and both vehicles are then created
\* without a client id.  The observation casts its rays without a client id and
\* reads the pose with one; a failed read degrades to the zero vector.
ProcReset(i) ==
    LET cleared == [proc_worlds EXCEPT ![ClientOf(i)] = [j \in Instances |-> 0]]
        built == [cleared EXCEPT ![DefaultClient][i] = @ + 1]
    IN  /\ proc_calls < MaxProcCalls
        /\ proc_calls' = proc_calls + 1
        /\ proc_worlds' = built
        /\ proc_vehicle' = [proc_vehicle EXCEPT ![i] = TRUE]
        /\ proc_last' = [inst |-> i, op |-> "reset", raised |-> FALSE,
                         seen |-> {j \in Instances : built[DefaultClient][j] > 0}]
        /\ UNCHANGED nonProcVars

\* step() of instance i: the pose read and the velocity command carry the client
\* id and raise when the vehicle body is not in that world; stepSimulation carries
\* it too; the ray casts and the mine contact query do not
ProcStep(i) ==
    LET missing == ~proc_vehicle[i] \/ proc_worlds[ClientOf(i)][i] = 0
    IN  /\ proc_calls < MaxProcCalls
        /\ proc_calls' = proc_calls + 1
        /\ proc_last' = [inst |-> i, op |-> "step", raised |-> missing,
                         seen |-> IF missing THEN {}
                                  ELSE {j \in Instances : proc_worlds[DefaultClient][j] > 0}]
        /\ UNCHANGED <<proc_worlds, proc_vehicle>>
        /\ UNCHANGED nonProcVars

NextProcess ==
    \/ \E i \in Instances : ProcReset(i)
    \/ \E i \in Instances : ProcStep(i)

Init == CmInit /\ EnvInit /\ VehInit /\ ArenaInit /\ FieldInit /\ ProcInit

SpecEnv == Init /\ [][NextEnv]_vars

SpecDifficulty == Init /\ [][NextDifficulty]_vars

SpecCurriculum == Init /\ [][NextCurriculum]_vars

SpecVehicle == Init /\ [][NextVehicle]_vars

SpecArena == Init /\ [][NextArena]_vars

SpecMineField == Init /\ [][NextMineField]_vars

SpecProcess == Init /\ [][NextProcess]_vars

(***************************************************************************)
(* Claims about CurriculumManager (checked under SpecCurriculum)           *)
(***************************************************************************)

\* number of wins among the last n entries of h, counted by position
WinsInLast(h, n) ==
    Cardinality({i \in 1..Len(h) : i > Len(h) - n /\ h[i] = 1})

\* the history right after the outcome of the last call was appended
AppendedHistory(win) ==
    LET x == IF win THEN 1 ELSE 0
    IN  [i \in 1..Min(Len(win_history) + 1, HistoryMaxLen) |->
            IF Len(win_history) < HistoryMaxLen
            THEN (IF i <= Len(win_history) THEN win_history[i] ELSE x)
            ELSE (IF i < HistoryMaxLen THEN win_history[i + 1] ELSE x)]

PromotionConditionMet(h) ==
    Len(h) >= promotion_window /\ WinsInLast(h, promotion_window) * 4 >= 3 * promotion_window

DemotionConditionMet(h) ==
    Len(h) >= demotion_window /\ WinsInLast(h, demotion_window) * 5 <= 2 * demotion_window

\* C1: with the default configuration, after any sequence of record_outcome
\* and reset calls current_stage is an integer in 1..6.
C1_StageInRange == current_stage \in 1..6

\* C1 witness: a call has been made and the stage has reached the top stage.
C1_Witness == cm_last.op = "record_outcome" /\ current_stage = 6

\* C2: each record_outcome(win) appends the outcome; the new stage is
\* min(6, stage+1) when the promotion condition holds on the appended history,
\* otherwise max(1, stage-1) when the demotion condition holds, otherwise the
\* old stage; so the stage moves by at most one per call.
C2_RecordOutcomeRule ==
    [][cm_last'.op = "record_outcome" =>
        LET h == AppendedHistory(cm_last'.win)
        IN  /\ current_stage' =
                IF PromotionConditionMet(h) THEN Min(6, current_stage + 1)
                ELSE IF DemotionConditionMet(h) THEN Max(1, current_stage - 1)
                ELSE current_stage
            /\ current_stage' - current_stage \in {-1, 0, 1}
            /\ win_history' \in {h, <<>>}]_cmVars

\* C2 witness: a loss recorded after a mixed run of outcomes (not a pure run of
\* losses from an empty history) has lowered the stage by one.
C2_Witness ==
    /\ cm_last.op = "record_outcome"
    /\ current_stage = cm_last.stage - 1
    /\ streak = NoStreak

\* C3 as stated: whenever a record_outcome call finds the promotion or the
\* demotion condition satisfied, the history is empty when it returns, also
\* when the stage is clamped.
C3_HistoryClearedAlways ==
    [][cm_last'.op = "record_outcome" =>
        LET h == AppendedHistory(cm_last'.win)
        IN  (PromotionConditionMet(h) \/ DemotionConditionMet(h)) => win_history' = <<>>]_cmVars

\* C3 amended: whenever a record_outcome call changes the stage, the history
\* is empty when it returns; when the condition is met at the clamp (promotion
\* at stage 6, demotion at stage 1) the history is kept, the new outcome
\* included.
C3_HistoryClearedOnStageChange ==
    [][cm_last'.op = "record_outcome" =>
        LET h == AppendedHistory(cm_last'.win)
        IN  /\ current_stage' # current_stage => win_history' = <<>>
            /\ (PromotionConditionMet(h) /\ current_stage = 6) => win_history' = h
            /\ (~PromotionConditionMet(h) /\ DemotionConditionMet(h) /\ current_stage = 1)
                   => win_history' = h]_cmVars

\* C3 witness: a call has just promoted the manager and left the history empty.
C3_Witness ==
    /\ cm_last.op = "record_outcome"
    /\ cm_last.win
    /\ current_stage = cm_last.stage + 1
    /\ win_history = <<>>

\* C4: from an empty history at stage s in 1..5, ten consecutive wins change
\* the stage only at the tenth call, to s+1, and leave the history empty; from
\* an empty history at stage s in 2..6, five consecutive losses change the
\* stage only at the fifth call, to s-1, and leave the history empty.
C4_Hysteresis ==
    /\ (streak.active /\ streak.win /\ streak.base \in 1..5) =>
          /\ Len(streak.log) <= 10
          /\ \A i \in 1..Len(streak.log) :
                streak.log[i] = IF i < 10 THEN streak.base ELSE streak.base + 1
          /\ Len(streak.log) = 10 => win_history = <<>>
          /\ Len(streak.log) < 10 => Len(win_history) = Len(streak.log)
    /\ (streak.active /\ ~streak.win /\ streak.base \in 2..6) =>
          /\ Len(streak.log) <= 5
          /\ \A i \in 1..Len(streak.log) :
                streak.log[i] = IF i < 5 THEN streak.base ELSE streak.base - 1
          /\ Len(streak.log) = 5 => win_history = <<>>
          /\ Len(streak.log) < 5 => Len(win_history) = Len(streak.log)

\* C4 witness: the tenth win of a run that started from an empty history at
\* stage 3 has been recorded.
C4_Witness ==
    /\ streak.active /\ streak.win /\ streak.base = 3
    /\ Len(streak.log) = 10

(***************************************************************************)
(* Claims about AdvancedLaserVehicleEnv (checked under SpecEnv)            *)
(***************************************************************************)

\* the last call was a step() that returned normally
StepReturned == ret.op = "step" /\ ~ret.raised

\* the behaviour so far is one reset() followed by steps of that episode only
FirstEpisode == ops = steps + 1

\* C5: within an episode, once a step() has set boundary_crossed, no later
\* step() sets it back to false, wherever the vehicle is.
C5_BoundaryLatchMonotonic ==
    [][(ret'.op = "step" /\ boundary_crossed) => boundary_crossed']_vars

\* C5 witness: in the first episode the latch is set and the last step left
\* the vehicle in the half y <= 0.
C5_Witness ==
    /\ StepReturned /\ FirstEpisode /\ steps >= 2
    /\ boundary_crossed /\ pose.y <= 0

\* C6 as stated: every reset() leaves the step counter 0, the cumulative
\* reward 0, the boundary latch false and the laser latch idle.
C6_ResetFresh ==
    ret.op = "reset" =>
        /\ steps = 0
        /\ episode_reward = 0
        /\ ~boundary_crossed
        /\ ~laser_hit
        /\ continuous_hit_start = None

\* C7: in every step() with boundary_crossed false when the reward is
\* computed, distance_reward and rotation_reward are exactly 0.
C7_RewardGating ==
    (StepReturned /\ ~boundary_crossed) =>
        /\ ret.reward_components.distance_reward = 0
        /\ ret.reward_components.rotation_reward = 0

\* C7 witness: a step with the latch unset at a pose whose distance to and
\* alignment with the opponent would both earn a positive reward.
C7_Witness ==
    /\ StepReturned /\ ~boundary_crossed
    /\ opponent_position # NoneSeq
    /\ Dist(<<pose.x, pose.y>>, opponent_position) < 3000
    /\ (opponent_position[1] - pose.x) * CosQ(pose.yaw)
         + (opponent_position[2] - pose.y) * SinQ(pose.yaw) > 0

\* C8: whenever at the end of a step() the laser has hit the opponent
\* continuously for at least 2 s, that step() returns terminated = true.
C8_VictoryTerminates ==
    (StepReturned /\ continuous_hit_start # None /\ now - continuous_hit_start >= 2)
        => ret.terminated

\* C8 witness: a step ends with 2 s of continuous hit and with no other reason
\* to terminate (no contact, no mine within the contact radius, inside the field).
C8_Witness ==
    /\ StepReturned /\ laser_hit
    /\ now - continuous_hit_start >= 2
    /\ ~pose.collision
    /\ \A i \in 1..3 : Dist2(<<pose.x, pose.y>>, ArenaMinePositions[i]) >= 225 * 225
    /\ Abs(pose.x) <= 3500 /\ Abs(pose.y) <= 3500

\* C9 as stated: in the step() in which the continuous hit reaches 2 s the
\* returned components hold goal_reward = 50.0 and a laser_reward that
\* includes the hit bonus of 2.0.
C9_VictoryReward ==
    (StepReturned /\ laser_hit /\ now - continuous_hit_start >= 2) =>
        /\ ret.reward_components.goal_reward = 50000
        /\ ret.reward_components.laser_reward >= 2000

\* the six orders of three mines
Orders3 == {<<1, 2, 3>>, <<1, 3, 2>>, <<2, 1, 3>>, <<2, 3, 1>>, <<3, 1, 2>>, <<3, 2, 1>>}

\* C10: in any step() after which the vehicle is within 0.225 m of some mine
\* centre of the arena, mine_penalty is -15.0, in whatever order the mines are
\* listed and with a further mine in the danger ring or the safe band listed
\* first, and the step returns terminated = true.
C10_MineContact ==
    (StepReturned /\ \E i \in 1..3 :
            Dist2(<<pose.x, pose.y>>, ArenaMinePositions[i]) < 225 * 225) =>
        /\ ret.reward_components.mine_penalty = -15000
        /\ ret.terminated
        /\ \A o \in Orders3 : \A off \in {300, 500, 2000} :
              MineLoop(<<pose.x, pose.y>>,
                       << <<pose.x + off, pose.y>>, ArenaMinePositions[o[1]],
                          ArenaMinePositions[o[2]], ArenaMinePositions[o[3]] >>, 0) = -15000

\* C10 witness: a step ends within the contact radius of a mine with no body
\* contact reported, inside the field and without a laser victory.
C10_Witness ==
    /\ StepReturned
    /\ \E i \in 1..3 : Dist2(<<pose.x, pose.y>>, ArenaMinePositions[i]) < 225 * 225
    /\ ~pose.collision
    /\ Abs(pose.x) <= 3500 /\ Abs(pose.y) <= 3500
    /\ continuous_hit_start = None

\* the last call was a reset() that placed the vehicles and took its frame
ResetReturned == ret.op = "reset" /\ observer.built

\* the frame computed by the last call that computed one
LatestFrame == observer.recent[Len(observer.recent)].frame

\* C11: after every step() whose observation is built without failure, the
\* returned vector holds, oldest first, the four most recently computed
\* frames (while fewer than four frames exist, copies of the first frame
\* stand in front); its last frame is the one computed in that step, and
\* after exactly 4 steps from reset() it holds only the frames of those steps.
C11_ObservationStack ==
    (StepReturned /\ observer.built) =>
        LET r == observer.recent
            k == Len(r)
        IN  /\ Len(ret.observation) = HistoryLength
            /\ \A i \in 1..HistoryLength :
                  ret.observation[i] =
                      IF i > HistoryLength - k THEN r[i - (HistoryLength - k)].frame
                      ELSE r[1].frame
            /\ r[k].op = ops /\ r[k].call = "step"
            /\ ret.observation[HistoryLength] =
                  Frame(pose, opponent_position, boundary_crossed, laser_hit,
                        continuous_hit_start, mine_positions, now)
            /\ (steps = 4 /\ observer.episode_frames = 4) =>
                  \A i \in 1..4 : r[i].call = "step" /\ r[i].op = ops - 4 + i

\* C11 witness: the fourth step of an episode has returned, all four steps
\* built their frames, and the oldest and the newest frame differ.
C11_Witness ==
    /\ StepReturned /\ observer.built
    /\ steps = 4 /\ observer.episode_frames = 4
    /\ ret.observation[1] # ret.observation[4]

\* C12 as stated: after every reset() the returned observation is four copies
\* of the frame computed at that reset, so no frame of an earlier episode is
\* left in the history.
C12_ResetPrimesHistory ==
    ResetReturned =>
        /\ Len(ret.observation) = HistoryLength
        /\ \A i \in 1..HistoryLength : ret.observation[i] = LatestFrame

\* C13 as stated: two reset() calls in succession with the same seed (the
\* same placement), with no step() between them, return identical
\* observations, whatever preceded the first.
C13_ResetIdempotent ==
    [][(ResetReturned /\ ret'.op = "reset" /\ observer'.built /\ pose' = pose)
          => ret'.observation = ret.observation]_vars

\* C14: every observation returned by reset() or step() has 160 entries, at
\* every difficulty and after any set_difficulty call; when the observation
\* could not be built it is the zero vector of 160 entries.
C14_ObservationShape ==
    (ret.op \in {"reset", "step"} /\ ~ret.raised) =>
        /\ ObservationSize(ret.observation) = 160
        /\ ~observer.built => (ret.observation = ZeroObservation /\ n_inputs = 160)

\* C14 witness: after set_difficulty raised the difficulty to 1.0 and a reset
\* placed 8 mines, a step whose observation could not be built has returned.
C14_Witness ==
    /\ StepReturned /\ ~observer.built
    /\ difficulty = 10 /\ Len(mine_positions) = 8
    /\ observer.recent # <<>>

\* C15: a step() that returns reports truncated = true exactly when it is at
\* least the max_steps-th step() call since the last reset(), so truncated
\* stays true on every further step of the episode.
C15_Truncation ==
    [][(ret'.op = "step" /\ ~ret'.raised) =>
          /\ ret'.truncated <=> (observer'.step_calls >= max_steps)
          /\ (StepReturned /\ ret.truncated) => ret'.truncated]_vars

\* C15 witness: a step beyond the max_steps-th has returned truncated and not
\* terminated.
C15_Witness ==
    /\ StepReturned
    /\ observer.step_calls > max_steps
    /\ ret.truncated /\ ~ret.terminated

\* C18 as stated: a step() that follows a reset() which failed after the arena
\* was cleared (no primary vehicle) returns the zero observation and zero
\* reward instead of raising.
C18_StepAfterFailedReset ==
    [][(ret.op = "reset" /\ ~vehicle /\ ret'.op = "step") =>
          /\ ~ret'.raised
          /\ ret'.observation = ZeroObservation
          /\ ret'.reward = 0]_vars

(***************************************************************************)
(* Claims about LaserVehicle (checked under SpecVehicle)                   *)
(***************************************************************************)

\* apply_action reached the velocity command
Commanded == veh.op = "apply_action" /\ veh.commanded

\* C16: for every 2-component action, inside [-1, 1] or outside it like the
\* x3-scaled actions of step(), the linear velocity apply_action commands has
\* magnitude <= max_velocity and the angular velocity magnitude <=
\* max_angular_velocity.
C16_VelocityLimits ==
    Commanded =>
        /\ veh.linear[1] * veh.linear[1] + veh.linear[2] * veh.linear[2]
              <= max_velocity * max_velocity
        /\ Abs(veh.angular) <= max_angular_velocity

\* C16 witness: a x3-scaled full-forward action was commanded at the raised
\* limit of set_difficulty(1.0), and the commanded speed is that limit.
C16_Witness ==
    /\ Commanded
    /\ veh.action = <<3000, 3000>>
    /\ max_velocity = 3000
    /\ Abs(veh.linear[1]) + Abs(veh.linear[2]) = max_velocity

\* C17: get_laser_distances() returns 16 values, each in [0,
\* laser_max_distance]: laser_max_distance for a ray that hits nothing,
\* hit_fraction x laser_max_distance for a ray that hits.
C17_LaserDistances ==
    veh.op = "get_laser_distances" =>
        /\ Len(veh.distances) = 16
        /\ \A i \in 1..16 :
              /\ veh.distances[i] >= 0 /\ veh.distances[i] <= 5000
              /\ veh.distances[i] =
                    IF i >= veh.scene.first /\ i <= veh.scene.last
                    THEN (veh.scene.fraction * 5000) \div 1000
                    ELSE 5000

\* C17 witness: a scan in which some rays hit at a quarter of the range and
\* the others hit nothing.
C17_Witness ==
    /\ veh.op = "get_laser_distances"
    /\ veh.scene.fraction = 250
    /\ \E i, j \in 1..16 : veh.distances[i] = 1250 /\ veh.distances[j] = 5000

\* C19 as stated: whichever engine call detects "not connected" (in
\* apply_action / fire_laser or in step_simulation), a reconnect is attempted
\* and the error reaches the caller only when the reconnect fails; any other
\* error is re-raised unchanged.
C19_ReconnectOnAnyCall ==
    /\ (veh.op = "apply_action" /\ Len(veh.action) = 2) =>
          /\ veh.fault.kind = "not_connected" =>
                (veh.reconnect /\ (veh.raised # "none" => ~veh.fault.reconnect_ok))
          /\ veh.fault.kind = "other" => veh.raised = "other"
    /\ arena_ret.op = "step_simulation" =>
          /\ arena_ret.fault.kind = "not_connected" =>
                (arena_ret.reconnect
                    /\ (arena_ret.raised # "none" => ~arena_ret.fault.reconnect_ok))
          /\ arena_ret.fault.kind = "other" => arena_ret.raised = "other"

(***************************************************************************)
(* Claims about CombatArena (checked under SpecArena)                      *)
(***************************************************************************)

\* C20 as stated: after the ticks of a step_simulation(n) that ran without an
\* engine failure, every vehicle spawned since the last reset was tested
\* against the mine zones, and for each one in contact its registered
\* callbacks were invoked and its collision count incremented at every tick.
C20_EveryVehicleChecked ==
    (arena_ret.op = "step_simulation" /\ arena_ret.fault = NoFault
        /\ collision_callbacks.exists) =>
        \A v \in 1..spawned :
            /\ v \in arena_ret.tested
            /\ (\E m \in MineZones : <<v, m>> \in arena_ret.contacts) =>
                  /\ arena_ret.counted[v] >= arena_ret.n
                  /\ arena_ret.invoked[v] >= arena_ret.n * collision_callbacks.registered[v]

\* C29 as stated: on an arena that was constructed and never reset,
\* register_collision_callback(body, cb) returns without error, and a
\* check_mine_collisions(body) that detects a contact invokes the callbacks of
\* body, increments its collision count and returns true, while one that
\* detects no contact invokes nothing, counts nothing and returns false.
C29_CallbackOnFreshArena ==
    ~collision_callbacks.exists =>
        /\ arena_ret.op = "register_collision_callback" => arena_ret.raised = "none"
        /\ arena_ret.op = "check_mine_collisions" =>
              \A body \in arena_ret.tested :
                  /\ arena_ret.raised = "none"
                  /\ IF \E m \in MineZones : <<body, m>> \in arena_ret.contacts
                     THEN /\ arena_ret.counted[body] = 1
                          /\ arena_ret.invoked[body] = collision_callbacks.registered[body]
                     ELSE /\ arena_ret.counted[body] = 0
                          /\ arena_ret.invoked[body] = 0

C26_LaserLatch ==
    /\ [](laser_hit <=> continuous_hit_start # None)
    /\ [](laser_hit => boundary_crossed)
    /\ [][(ret'.op = "step" /\ ~ret'.raised /\ ops' = ops + 1) =>
             /\ (ret'.hit /\ ~laser_hit) => (laser_hit' /\ continuous_hit_start' = now')
             /\ (ret'.hit /\ laser_hit) =>
                    (laser_hit' /\ continuous_hit_start' = continuous_hit_start)
             /\ ~ret'.hit => (~laser_hit' /\ continuous_hit_start' = None)]_vars

\* C26 witness: a step detected a hit while the latch was already hitting, so
\* the recorded start is older than the clock, and a reset() came in between.
C26_Witness ==
    /\ StepReturned /\ ret.hit
    /\ laser_hit /\ continuous_hit_start # None /\ continuous_hit_start < now
    /\ ~FirstEpisode

\* C27 as stated: a step() sets boundary_crossed only when the vehicle is on
\* the other side of y = 0 than where reset() placed it (the opponent stands in
\* the corner opposite to the vehicle's start corner); a vehicle that starts in
\* the upper-right corner and is in the half y > 0 does not get the latch set.
C27_LatchOnlyOnCrossing ==
    [][(ret'.op = "step" /\ ~ret'.raised /\ ~boundary_crossed /\ boundary_crossed') =>
          \/ opponent_position = StartUpperRight /\ pose'.y > 0
          \/ opponent_position = StartLowerLeft /\ pose'.y < 0]_vars

\* C25 as stated, read at the first step() of an episode: no cell has been
\* visited in that episode yet, so the step is the first one in its cell and
\* is granted the exploration reward of 0.1, whatever cells earlier episodes
\* visited.
C25_ExplorationPerEpisode ==
    (StepReturned /\ steps = 1) => ret.reward_components.exploration_reward = 100

(***************************************************************************)
(* Claims about the difficulty (checked under SpecDifficulty)              *)
(***************************************************************************)

\* the call that has just returned is a reset() that placed the vehicles
ResetJustReturned ==
    /\ ResetReturned
    /\ observer.recent[Len(observer.recent)].op = ops

\* C22 as stated: a reset() that places the vehicles generates exactly
\* round(difficulty x 8) mine positions, for every difficulty in [0.1, 1.0].
C22_MineCountRounded ==
    ResetJustReturned =>
        /\ 10 * Len(mine_positions) - 5 <= 8 * difficulty
        /\ 8 * difficulty < 10 * Len(mine_positions) + 5

\* C22 (amended): a reset() that places the vehicles generates exactly
\* floor(difficulty x 8) mine positions, for every difficulty in [0.1, 1.0].
C22_MineCountTruncated ==
    ResetJustReturned =>
        /\ difficulty \in 1..10
        /\ 10 * Len(mine_positions) <= 8 * difficulty
        /\ 8 * difficulty < 10 * (Len(mine_positions) + 1)

\* C22 witness: a reset() at difficulty 0.7 has generated 5 mine positions.
C22_Witness ==
    /\ ResetJustReturned
    /\ difficulty = 7
    /\ Len(mine_positions) = 5

\* distance in mm from pos to the nearest mine centre of the arena
NearestMineDistance(pos) ==
    LET d2 == {Dist2(pos, ArenaMinePositions[i]) : i \in 1..Len(ArenaMinePositions)}
    IN  ISqrt(CHOOSE m \in d2 : \A k \in d2 : m <= k)

\* the mine component as a function of the nearest-mine distance d alone
NearestMineReward(d) ==
    IF d < 225 THEN -15000
    ELSE IF d < 375 THEN -2000 + (20 * (d - 75)) \div 3
    ELSE IF d < 700 THEN (d - 300) \div 2
    ELSE 0

\* C24 as stated: the mine component of a step's reward is determined by the
\* distance to the nearest mine centre: the contact penalty inside the contact
\* radius, the ramped penalty inside the danger ring, the small reward inside
\* the safe band, 0 otherwise, in whatever order the mines are listed and
\* wherever the other mines are.
C24_NearestMineOnly ==
    StepReturned =>
        LET pos == <<pose.x, pose.y>>
            d == NearestMineDistance(pos)
        IN  /\ ret.reward_components.mine_penalty = NearestMineReward(d)
            /\ \A o \in Orders3 :
                  MineLoop(pos, <<ArenaMinePositions[o[1]], ArenaMinePositions[o[2]],
                                  ArenaMinePositions[o[3]]>>, 0) = NearestMineReward(d)

(***************************************************************************)
(* Claims about the mine zones of the manager's arena                      *)
(***************************************************************************)

\* the last call on the manager ran setup_environment()
SetupRan ==
    \/ cm_last.op = "reset"
    \/ cm_last.op = "record_outcome" /\ current_stage # cm_last.stage

\* C28 as stated: after setup_environment() in a stage whose mines_enabled
\* flag is false (stages 1 to 3), after reset() or after a demotion from a
\* mine-enabled stage, the arena holds no mines: arena.mines and
\* arena.mine_objects are both empty.
C28_NoMinesWhenDisabled ==
    (SetupRan /\ ~MinesEnabled(current_stage)) =>
        /\ cm_arena_mines = 0
        /\ cm_arena_mine_objects = 0

(***************************************************************************)
(* Claims about the random mine field (checked under SpecMineField)        *)
(***************************************************************************)

\* C23 as stated: _generate_random_mine_positions returns after at most
\* max_attempts sampling attempts with exactly 3 positions, and every two of
\* the returned positions are at least 2 x mine_radius apart, also when some
\* of them come from the default lattice.
C23_ThreeSeparatedMines ==
    field.returned =>
        /\ field.attempts <= max_attempts
        /\ Len(field.mines) = 3
        /\ \A i \in 1..3 : \A j \in 1..3 :
              i # j => Dist2(field.mines[i], field.mines[j])
                          >= (2 * mine_radius) * (2 * mine_radius)

(***************************************************************************)
(* Claims about environments sharing a process (checked under SpecProcess) *)
(***************************************************************************)

\* C21 as stated: every physics call of an instance goes to its own
\* connection, so a reset() or step() of one instance leaves the world of
\* every other connection as it was, and the rays an instance casts can meet
\* only bodies that the instance itself created.
C21_InstancesIsolated ==
    [][proc_calls' = proc_calls + 1 =>
          /\ \A i \in Instances :
                i # proc_last'.inst =>
                    proc_worlds'[ClientOf(i)] = proc_worlds[ClientOf(i)]
          /\ proc_last'.seen \subseteq {proc_last'.inst}]_vars

====
